---- MODULE Spec2Model ----
(***************************************************************************)
(* Model of the Teams relay service: the token cache (teams_token.py), the *)
(* Graph wrappers (graph.py), the three routes (api.py) and the start-up   *)
(* sequence (main.py).                                                     *)
(*                                                                         *)
(* Python values are tagged so that values of different Python types can   *)
(* be compared: None is <<>>, a str is <<"str", s>>, a number is           *)
(* <<"num", n>>, a bool is <<"bool", b>>.  A JSON object / dict is a       *)
(* function whose DOMAIN is the set of keys present.                       *)
(***************************************************************************)
EXTENDS Integers, Sequences, FiniteSets, TLC

VARIABLES
    token,       \* TeamsToken.token
    validity,    \* TeamsToken.validity
    now,         \* the clock read by time()
    phase,       \* "boot" | "serving" | "crashed" (main.py module body)
    cachedAt,    \* value of time() read by the get_token call that stored token
    req,         \* the last request handled: route and JSON body
    resp,        \* the response given to it
    pre,         \* token cache and clock when that request arrived
    ret,         \* what request_token returned to the handler
    got,         \* what the last get_token call returned
    tokenCalls,  \* calls made to the token service while handling it
    graphCalls,  \* calls made to the Graph API while handling it
    user_upn,    \* ChatList.user_upn
    raw_chat_list, \* ChatList.raw_chat_list
    chat_list_out, \* ChatList.chat_list
    threads      \* request threads inside request_token: position and locals

vars == <<token, validity, now, phase, cachedAt, req, resp, pre, ret, got,
          tokenCalls, graphCalls, user_upn, raw_chat_list, chat_list_out,
          threads>>

(***************************************************************************)
(* Bounds                                                                  *)
(***************************************************************************)
MaxTime == 2        \* the clock runs over 0..MaxTime
MaxChats == 2       \* longest raw chat list drawn for the projection
MaxMembers == 2     \* longest raw members array drawn for the projection
NumThreads == 2     \* requests handled at the same time

(***************************************************************************)
(* Python values                                                           *)
(***************************************************************************)
None == <<>>
Str(s) == <<"str", s>>
Num(n) == <<"num", n>>
PyTrue == <<"bool", TRUE>>
PyFalse == <<"bool", FALSE>>
\* outcome of a call that did not return: the exception left the function
Raised == <<"raise">>
\* marker for "request_token was not called by this request"
NotCalled == <<"notcalled">>

\* truthiness as it would be were only None false (`token is None`)
Truthy_notnone(v) == v # None

\* Python truthiness of the values that reach `if not token` / `if result`
Truthy(v) == v \notin {None, PyFalse, Str(""), Num(0)}

EmptyDict == [k \in {} |-> None]

(***************************************************************************)
(* The token service (external collaborator): what requests.get(TOKEN_URL) *)
(* can produce.                                                            *)
(***************************************************************************)
TokenStrings == {"", "tokA", "tokB"}
Validities == 0..(MaxTime + 1)

TokenJson(K, r, t, v) ==
    [k \in K |-> IF k = "result" THEN r
                 ELSE IF k = "token" THEN Str(t)
                 ELSE v]

\* every set of keys; with all three keys present, an error result and every
\* token and validity of a success result
TokenJsons ==
    {TokenJson(K, "success", "tokA", MaxTime + 1) :
        K \in SUBSET {"result", "token", "validity"}}
    \cup {TokenJson({"result", "token", "validity"}, "error", "tokA", MaxTime + 1)}
    \cup {TokenJson({"result", "token", "validity"}, "success", t, v) :
            t \in TokenStrings, v \in Validities}

TokenResponses ==
    {[kind |-> "transport", status_code |-> 0, json |-> EmptyDict]}
    \cup {[kind |-> "http", status_code |-> s, json |-> EmptyDict] : s \in {401, 500}}
    \cup {[kind |-> "http", status_code |-> 200, json |-> j] : j \in TokenJsons}

(***************************************************************************)
(* TeamsToken                                                              *)
(***************************************************************************)
\* get_token as it would be without the check of the validity (lines 105-111)
get_token_nocheck(tok, val, at, response, t) ==
    LET reset == [token |-> None, validity |-> None, at |-> None]   \* lines 74-75
    IN  IF response.kind = "transport"
        THEN reset @@ [ret |-> Raised]
        ELSE IF response.status_code # 200
        THEN reset @@ [ret |-> PyFalse]
        ELSE LET data == response.json IN
             IF \/ DOMAIN data = {}
                \/ "result" \notin DOMAIN data
                \/ data["result"] = "error"
                \/ "token" \notin DOMAIN data
                \/ "validity" \notin DOMAIN data
             THEN reset @@ [ret |-> PyFalse]
             ELSE IF FALSE
             THEN reset @@ [ret |-> PyFalse]
             ELSE [token |-> data["token"], validity |-> Num(data["validity"]),
                   at |-> Num(t), ret |-> PyTrue]

\* get_token as it would be without the reset of lines 74-75
get_token_noreset(tok, val, at, response, t) ==
    LET reset == [token |-> tok, validity |-> val, at |-> at]
    IN  IF response.kind = "transport"
        THEN reset @@ [ret |-> Raised]
        ELSE IF response.status_code # 200
        THEN reset @@ [ret |-> PyFalse]
        ELSE LET data == response.json IN
             IF \/ DOMAIN data = {}
                \/ "result" \notin DOMAIN data
                \/ data["result"] = "error"
                \/ "token" \notin DOMAIN data
                \/ "validity" \notin DOMAIN data
             THEN reset @@ [ret |-> PyFalse]
             ELSE IF data["validity"] < t
             THEN reset @@ [ret |-> PyFalse]
             ELSE [token |-> data["token"], validity |-> Num(data["validity"]),
                   at |-> Num(t), ret |-> PyTrue]

\* get_token on a cache (tok, val, at), the token service answering
\* `response` and time() yielding t at line 106: the cache afterwards and
\* the value returned (Raised when requests.get raises).
get_token(tok, val, at, response, t) ==
    LET reset == [token |-> None, validity |-> None, at |-> None]   \* lines 74-75
    IN  IF response.kind = "transport"
        THEN reset @@ [ret |-> Raised]
        ELSE IF response.status_code # 200
        THEN reset @@ [ret |-> PyFalse]
        ELSE LET data == response.json IN
             IF \/ DOMAIN data = {}
                \/ "result" \notin DOMAIN data
                \/ data["result"] = "error"
                \/ "token" \notin DOMAIN data
                \/ "validity" \notin DOMAIN data
             THEN reset @@ [ret |-> PyFalse]
             ELSE IF data["validity"] < t
             THEN reset @@ [ret |-> PyFalse]
             ELSE [token |-> data["token"], validity |-> Num(data["validity"]),
                   at |-> Num(t), ret |-> PyTrue]

\* the clock readings possible once a call that began at t has returned
Clock(t) == {u \in t..(t + 1) : u <= MaxTime}

\* request_token as it would be with the expiry comparison reversed
request_token_gt(tok, val, at, t1) ==
    LET refreshed ==
            { get_token(tok, val, at, response, t2)
                  @@ [calls |-> <<[response |-> response, at |-> t2]>>] :
              response \in TokenResponses, t2 \in Clock(t1) }
        cs == IF tok = None
              THEN refreshed
              ELSE IF val # None /\ val[2] > t1
              THEN refreshed
              ELSE {[token |-> tok, validity |-> val, ret |-> NotCalled,
                     at |-> at, calls |-> <<>>]}
    IN  { [token |-> c.token, validity |-> c.validity, at |-> c.at,
           calls |-> c.calls, got |-> c.ret,
           ret |-> IF c.ret = Raised THEN Raised
                   ELSE IF c.token = None THEN PyFalse
                   ELSE c.token] : c \in cs }

\* request_token as it would be were a validity equal to time() expired
request_token_le(tok, val, at, t1) ==
    LET refreshed ==
            { get_token(tok, val, at, response, t2)
                  @@ [calls |-> <<[response |-> response, at |-> t2]>>] :
              response \in TokenResponses, t2 \in Clock(t1) }
        cs == IF tok = None
              THEN refreshed
              ELSE IF val # None /\ val[2] <= t1
              THEN refreshed
              ELSE {[token |-> tok, validity |-> val, ret |-> NotCalled,
                     at |-> at, calls |-> <<>>]}
    IN  { [token |-> c.token, validity |-> c.validity, at |-> c.at,
           calls |-> c.calls, got |-> c.ret,
           ret |-> IF c.ret = Raised THEN Raised
                   ELSE IF c.token = None THEN PyFalse
                   ELSE c.token] : c \in cs }

\* request_token on a cache (tok, val, at), time() yielding t1 at line 148:
\* the set of outcomes, one for each answer of the token service and each
\* clock reading inside get_token.  An outcome is the cache afterwards, the
\* calls made to the token service, the value get_token returned (got) and
\* the value returned.
request_token(tok, val, at, t1) ==
    LET refreshed ==
            { get_token(tok, val, at, response, t2)
                  @@ [calls |-> <<[response |-> response, at |-> t2]>>] :
              response \in TokenResponses, t2 \in Clock(t1) }
        cs == IF tok = None
              THEN refreshed
              ELSE IF val # None /\ val[2] < t1
              THEN refreshed
              ELSE {[token |-> tok, validity |-> val, ret |-> NotCalled,
                     at |-> at, calls |-> <<>>]}
    IN  { [token |-> c.token, validity |-> c.validity, at |-> c.at,
           calls |-> c.calls, got |-> c.ret,
           ret |-> IF c.ret = Raised THEN Raised
                   ELSE IF c.token = None THEN PyFalse
                   ELSE c.token] : c \in cs }

(***************************************************************************)
(* The Graph API (external collaborator)                                   *)
(***************************************************************************)
Get(d, k) == IF k \in DOMAIN d THEN d[k] ELSE None   \* dict.get(k)

GraphPostResponses ==
    {[kind |-> "transport", status_code |-> 0]}
    \cup {[kind |-> "http", status_code |-> s] : s \in {200, 201, 401, 403, 500}}

\* members of raw chats: the service account, the same address in another
\* letter case, and somebody else
RawMembers ==
    { [displayName |-> Str("Service"), email |-> Str("svc@x.com"), roles |-> Str("owner")],
      [displayName |-> Str("Shouty"), email |-> Str("SVC@x.com"), roles |-> Str("guest")],
      [displayName |-> Str("A"), email |-> Str("a@x.com"), roles |-> Str("owner")] }

SeqsUpTo(S, n) == UNION {[1..k -> S] : k \in 0..n}

\* raw chats: nothing but an id; id and members; every field
RawChats(maxMembers) ==
    {[k \in {"id"} |-> Str("19:bare")]}
    \cup {[k \in {"id", "members"} |-> IF k = "id" THEN Str("19:short") ELSE m] :
            m \in SeqsUpTo(RawMembers, maxMembers)}
    \cup {[k \in {"id", "topic", "chatType", "webUrl", "members"} |->
                CASE k = "id" -> Str("19:full")
                  [] k = "topic" -> Str("Ops")
                  [] k = "chatType" -> Str("group")
                  [] k = "webUrl" -> Str("https://teams/l/chat")
                  [] OTHER -> m] :
            m \in SeqsUpTo(RawMembers, maxMembers)}

RawChatLists == SeqsUpTo(RawChats(MaxMembers), MaxChats)

\* the few chat lists Graph answers with while the routes are exercised
SampleChatLists ==
    LET svc == CHOOSE m \in RawMembers : m.email = Str("svc@x.com")
        a == CHOOSE m \in RawMembers : m.email = Str("a@x.com")
        full == CHOOSE c \in RawChats(2) :
                    "topic" \in DOMAIN c /\ c["members"] = <<svc, a>>
        bare == CHOOSE c \in RawChats(0) : DOMAIN c = {"id"}
    IN  {<<>>, <<full>>, <<bare, full>>}

GraphGetResponses(lists) ==
    {[kind |-> "transport", status_code |-> 0, json |-> EmptyDict]}
    \cup {[kind |-> "http", status_code |-> s, json |-> EmptyDict] :
            s \in {401, 403, 500}}
    \cup {[kind |-> "http", status_code |-> 200, json |-> EmptyDict]}
    \cup {[kind |-> "http", status_code |-> 200, json |-> [value |-> l]] :
            l \in lists}

(***************************************************************************)
(* graph.py                                                                *)
(***************************************************************************)
\* send_message as it would be were 200 taken for success as well
send_message_2xx(chat_id, access_token, msg, response) ==
    LET call == [method |-> "POST", path |-> <<"chats", chat_id, "messages">>,
                 bearer |-> access_token, content |-> msg,
                 response |-> response]
    IN  IF response.kind = "transport"
        THEN [ret |-> FALSE, calls |-> <<call>>]
        ELSE IF response.status_code \in {200, 201}
        THEN [ret |-> TRUE, calls |-> <<call>>]
        ELSE [ret |-> FALSE, calls |-> <<call>>]

\* ChatMessage.send_message: the call made and the bool returned
send_message(chat_id, access_token, msg, response) ==
    LET call == [method |-> "POST", path |-> <<"chats", chat_id, "messages">>,
                 bearer |-> access_token, content |-> msg,
                 response |-> response]
    IN  IF response.kind = "transport"
        THEN [ret |-> FALSE, calls |-> <<call>>]
        ELSE IF response.status_code = 201
        THEN [ret |-> TRUE, calls |-> <<call>>]
        ELSE [ret |-> FALSE, calls |-> <<call>>]

\* ChatList.get_user_chats: the call made and raw_chat_list afterwards
get_user_chats(upn, access_token, response) ==
    LET call == [method |-> "GET", path |-> <<"users", upn, "chats">>,
                 bearer |-> access_token, content |-> None,
                 response |-> response]
    IN  IF response.kind = "transport"
        THEN [raw_chat_list |-> <<>>, calls |-> <<call>>]
        ELSE IF response.status_code = 403
        THEN [raw_chat_list |-> <<>>, calls |-> <<call>>]
        ELSE IF response.status_code = 200
        THEN [raw_chat_list |->
                  IF "value" \in DOMAIN response.json
                  THEN response.json["value"] ELSE <<>>,
              calls |-> <<call>>]
        ELSE [raw_chat_list |-> <<>>, calls |-> <<call>>]

\* str.lower() on the addresses that occur
Lower(e) == IF e = Str("SVC@x.com") THEN Str("svc@x.com") ELSE e

\* the loop as it would be were addresses compared without regard to case
RECURSIVE member_loop_ci(_, _, _)
member_loop_ci(members, upn, member_list) ==
    IF members = <<>> THEN member_list
    ELSE LET member == Head(members) IN
         IF Lower(member.email) = Lower(Str(upn))
         THEN member_loop_ci(Tail(members), upn, member_list)
         ELSE member_loop_ci(Tail(members), upn,
                  Append(member_list, [display_name |-> member.displayName,
                                       email |-> member.email]))

\* the inner loop of parse_chat_list (lines 193-202)
RECURSIVE member_loop(_, _, _)
member_loop(members, upn, member_list) ==
    IF members = <<>> THEN member_list
    ELSE LET member == Head(members) IN
         IF member.email = Str(upn)
         THEN member_loop(Tail(members), upn, member_list)
         ELSE member_loop(Tail(members), upn,
                  Append(member_list, [display_name |-> member.displayName,
                                       email |-> member.email]))

\* ChatList.parse_chat_list: chat_list afterwards
RECURSIVE parse_chat_list(_, _, _)
parse_chat_list(raw, upn, chats) ==
    IF raw = <<>> THEN chats
    ELSE LET chat == Head(raw)
             member_list ==
                 member_loop(IF "members" \in DOMAIN chat THEN chat["members"]
                             ELSE <<>>, upn, <<>>)
         IN  parse_chat_list(Tail(raw), upn,
                 Append(chats, [id |-> Get(chat, "id"),
                                topic |-> Get(chat, "topic"),
                                members |-> member_list,
                                chat_type |-> Get(chat, "chatType"),
                                web_url |-> Get(chat, "webUrl")]))

\* ChatList.__init__: the fields of the object once constructed
ChatList(upn, access_token, response) ==
    LET g == get_user_chats(upn, access_token, response)
    IN  [user_upn |-> upn,
         raw_chat_list |-> g.raw_chat_list,
         chat_list |-> IF Len(g.raw_chat_list) > 0
                       THEN parse_chat_list(g.raw_chat_list, upn, <<>>)
                       ELSE <<>>,
         calls |-> g.calls]

(***************************************************************************)
(* Flask: what the routes use of it                                        *)
(***************************************************************************)
Obj(r) == <<"object", r>>      \* a JSON object
Arr(a) == <<"array", a>>       \* a JSON array

\* flask.jsonify(*args): one argument is serialised as itself, several are
\* serialised as the array of them
jsonify(args) == IF Len(args) = 1 THEN args[1] ELSE Arr(args)

\* flask.make_response(rv, status)
make_response(rv, status) == [status |-> status, body |-> rv]

\* the response Flask gives when the view function raises
InternalServerError == [status |-> 500, body |-> Str("Internal Server Error")]

NoResponse == [status |-> 0, body |-> None]

BodyKeys == {"chat-id", "message", "priority"}
Bodies ==
    { [k \in K |-> CASE k = "chat-id" -> Str("19:chat")
                     [] k = "message" -> Str("hello")
                     [] OTHER -> Str("high")] : K \in SUBSET BodyKeys }

(***************************************************************************)
(* api.py                                                                  *)
(***************************************************************************)
\* health(): the response
health == make_response(jsonify(<<Obj([status |-> "ok"])>>), 200)

\* message() as it would be were the body validated after the token is
\* requested
message_late_validation(data, tok, val, at, t1) ==
    UNION {
        LET cache(rsp, gcalls) ==
                [resp |-> rsp, token |-> r.token, validity |-> r.validity,
                 at |-> r.at, ret |-> r.ret, got |-> r.got,
                 tokenCalls |-> r.calls, graphCalls |-> gcalls]
        IN  IF r.ret = Raised
            THEN {cache(InternalServerError, <<>>)}
            ELSE IF \/ DOMAIN data = {}
                    \/ "chat-id" \notin DOMAIN data
                    \/ "message" \notin DOMAIN data
            THEN {cache(make_response(
                            jsonify(<<Obj([result |-> "error",
                                           error |-> "Missing chat-id or message"])>>),
                            400),
                        <<>>)}
            ELSE IF ~Truthy(r.ret)
            THEN {cache(make_response(
                            jsonify(<<Obj([result |-> "error",
                                           error |-> "No access token available, check the service account is logged in."])>>),
                            400),
                        <<>>)}
            ELSE { LET s == send_message(data["chat-id"], r.ret,
                                         data["message"], gresponse)
                   IN  IF s.ret
                       THEN cache(make_response(
                                      jsonify(<<Obj([result |-> "success"])>>),
                                      200),
                                  s.calls)
                       ELSE cache(make_response(
                                      jsonify(<<Obj([result |-> "error",
                                                     error |-> "Failed to send message"])>>),
                                      400),
                                  s.calls) :
                   gresponse \in GraphPostResponses }
        : r \in request_token(tok, val, at, t1) }

\* message(): the set of outcomes for the body `data`, the cache (tok, val,
\* at) and the clock reading t1, one for each behaviour of the token service
\* and of Graph.  An outcome is the response, the cache afterwards, what
\* request_token returned and the calls made.
message(data, tok, val, at, t1) ==
    IF \/ DOMAIN data = {}
       \/ "chat-id" \notin DOMAIN data
       \/ "message" \notin DOMAIN data
    THEN {[resp |-> make_response(
                        jsonify(<<Obj([result |-> "error",
                                       error |-> "Missing chat-id or message"])>>),
                        400),
           token |-> tok, validity |-> val, at |-> at, ret |-> NotCalled,
           got |-> NotCalled, tokenCalls |-> <<>>, graphCalls |-> <<>>]}
    ELSE UNION {
        LET cache(rsp, gcalls) ==
                [resp |-> rsp, token |-> r.token, validity |-> r.validity,
                 at |-> r.at, ret |-> r.ret, got |-> r.got,
                 tokenCalls |-> r.calls, graphCalls |-> gcalls]
        IN  IF r.ret = Raised
            THEN {cache(InternalServerError, <<>>)}
            ELSE IF ~Truthy(r.ret)
            THEN {cache(make_response(
                            jsonify(<<Obj([result |-> "error",
                                           error |-> "No access token available, check the service account is logged in."])>>),
                            400),
                        <<>>)}
            ELSE { LET s == send_message(data["chat-id"], r.ret,
                                         data["message"], gresponse)
                   IN  IF s.ret
                       THEN cache(make_response(
                                      jsonify(<<Obj([result |-> "success"])>>),
                                      200),
                                  s.calls)
                       ELSE cache(make_response(
                                      jsonify(<<Obj([result |-> "error",
                                                     error |-> "Failed to send message"])>>),
                                      400),
                                  s.calls) :
                   gresponse \in GraphPostResponses }
        : r \in request_token(tok, val, at, t1) }

\* chat_list() as it would be with the token check that message() has
chat_list_checked(user, tok, val, at, t1, lists) ==
    UNION {
        LET none == [user_upn |-> user, raw_chat_list |-> <<>>,
                     chat_list |-> <<>>, calls |-> <<>>]
            out(rsp, cl) ==
                [resp |-> rsp, token |-> r.token, validity |-> r.validity,
                 at |-> r.at, ret |-> r.ret, got |-> r.got,
                 tokenCalls |-> r.calls, graphCalls |-> cl.calls,
                 chatList |-> cl]
        IN  IF r.ret = Raised
            THEN {out(InternalServerError, none)}
            ELSE IF ~Truthy(r.ret)
            THEN {out(make_response(
                          jsonify(<<Obj([result |-> "error",
                                         error |-> "No access token available, check the service account is logged in."])>>),
                          400),
                      none)}
            ELSE { LET cl == ChatList(user, r.ret, gresponse)
                   IN  out(make_response(
                               jsonify(<<Obj([result |-> "success",
                                              chats |-> cl.chat_list]),
                                         Num(200)>>),
                               200),
                           cl) :
                   gresponse \in GraphGetResponses(lists) }
        : r \in request_token(tok, val, at, t1) }

\* chat_list(): the set of outcomes, as for message(), each with the
\* ChatList object built; `lists` are the chat lists Graph may answer with
chat_list(user, tok, val, at, t1, lists) ==
    UNION {
        IF r.ret = Raised
        THEN {[resp |-> InternalServerError,
               token |-> r.token, validity |-> r.validity, at |-> r.at,
               ret |-> r.ret, got |-> r.got, tokenCalls |-> r.calls,
               graphCalls |-> <<>>,
               chatList |-> [user_upn |-> user, raw_chat_list |-> <<>>,
                             chat_list |-> <<>>, calls |-> <<>>]]}
        ELSE { LET cl == ChatList(user, r.ret, gresponse)
               IN  [resp |-> make_response(
                                 jsonify(<<Obj([result |-> "success",
                                                chats |-> cl.chat_list]),
                                           Num(200)>>),
                                 200),
                    token |-> r.token, validity |-> r.validity, at |-> r.at,
                    ret |-> r.ret, got |-> r.got, tokenCalls |-> r.calls,
                    graphCalls |-> cl.calls, chatList |-> cl] :
               gresponse \in GraphGetResponses(lists) }
        : r \in request_token(tok, val, at, t1) }

(***************************************************************************)
(* The service as a state machine                                          *)
(***************************************************************************)
ServiceUPN == "svc@x.com"      \* GLOBAL_CONFIG['teams']['user']

Init ==
    /\ token = None
    /\ validity = None
    /\ now = 0
    /\ phase = "boot"
    /\ cachedAt = None
    /\ req = [route |-> "none", data |-> EmptyDict]
    /\ resp = NoResponse
    /\ pre = [token |-> None, validity |-> None, now |-> 0]
    /\ ret = NotCalled
    /\ got = NotCalled
    /\ tokenCalls = <<>>
    /\ graphCalls = <<>>
    /\ user_upn = ServiceUPN
    /\ raw_chat_list = <<>>
    /\ chat_list_out = <<>>
    /\ threads = <<>>

\* main.py module body (lines 152-160): the first get_token, then the app
\* serves; an exception out of get_token ends the process.
main ==
    /\ phase = "boot"
    /\ \E response \in TokenResponses, t \in Clock(now) :
         LET g == get_token(token, validity, cachedAt, response, t) IN
         /\ token' = g.token
         /\ validity' = g.validity
         /\ cachedAt' = g.at
         /\ now' = t
         /\ phase' = IF g.ret = Raised THEN "crashed" ELSE "serving"
         /\ tokenCalls' = <<[response |-> response, at |-> t]>>
         /\ got' = g.ret
    /\ UNCHANGED <<req, resp, pre, ret, graphCalls, user_upn, raw_chat_list,
                   chat_list_out, threads>>

\* time passes between requests
Tick ==
    /\ phase = "serving"
    /\ now < MaxTime
    /\ now' = now + 1
    /\ UNCHANGED <<token, validity, phase, cachedAt, req, resp, pre, ret, got,
                   tokenCalls, graphCalls, user_upn, raw_chat_list,
                   chat_list_out, threads>>

GET_api_health ==
    /\ phase = "serving"
    /\ req' = [route |-> "/api/health", data |-> EmptyDict]
    /\ resp' = health
    /\ pre' = [token |-> token, validity |-> validity, now |-> now]
    /\ ret' = NotCalled
    /\ got' = NotCalled
    /\ tokenCalls' = <<>>
    /\ graphCalls' = <<>>
    /\ UNCHANGED <<token, validity, now, phase, cachedAt, user_upn,
                   raw_chat_list, chat_list_out, threads>>

POST_api_message ==
    /\ phase = "serving"
    /\ \E data \in Bodies :
         \E h \in message(data, token, validity, cachedAt, now) :
             /\ req' = [route |-> "/api/message", data |-> data]
             /\ resp' = h.resp
             /\ pre' = [token |-> token, validity |-> validity, now |-> now]
             /\ ret' = h.ret
             /\ got' = h.got
             /\ tokenCalls' = h.tokenCalls
             /\ graphCalls' = h.graphCalls
             /\ token' = h.token
             /\ validity' = h.validity
             /\ cachedAt' = h.at
             /\ now' = IF h.tokenCalls = <<>> THEN now ELSE h.tokenCalls[1].at
    /\ UNCHANGED <<phase, user_upn, raw_chat_list, chat_list_out, threads>>

GET_api_chat_list ==
    /\ phase = "serving"
    /\ \E h \in chat_list(ServiceUPN, token, validity, cachedAt, now,
                           SampleChatLists) :
             /\ req' = [route |-> "/api/chat_list", data |-> EmptyDict]
             /\ resp' = h.resp
             /\ pre' = [token |-> token, validity |-> validity, now |-> now]
             /\ ret' = h.ret
             /\ got' = h.got
             /\ tokenCalls' = h.tokenCalls
             /\ graphCalls' = h.graphCalls
             /\ token' = h.token
             /\ validity' = h.validity
             /\ cachedAt' = h.at
             /\ now' = IF h.tokenCalls = <<>> THEN now ELSE h.tokenCalls[1].at
             /\ user_upn' = h.chatList.user_upn
             /\ raw_chat_list' = h.chatList.raw_chat_list
             /\ chat_list_out' = h.chatList.chat_list
    /\ UNCHANGED <<phase, threads>>

Next ==
    \/ main
    \/ Tick
    \/ GET_api_health
    \/ POST_api_message
    \/ GET_api_chat_list

Spec == Init /\ [][Next]_vars

(***************************************************************************)
(* The chat list projection on its own: ChatList objects built from every  *)
(* raw chat list up to the bounds, for each service-account UPN.           *)
(***************************************************************************)
UPNs == {"svc@x.com", "SVC@x.com"}

InitProj ==
    /\ token = None
    /\ validity = None
    /\ now = 0
    /\ phase = "projecting"
    /\ cachedAt = None
    /\ req = [route |-> "none", data |-> EmptyDict]
    /\ resp = NoResponse
    /\ pre = [token |-> None, validity |-> None, now |-> 0]
    /\ ret = NotCalled
    /\ got = NotCalled
    /\ tokenCalls = <<>>
    /\ graphCalls = <<>>
    /\ user_upn \in UPNs
    /\ raw_chat_list = <<>>
    /\ chat_list_out = <<>>
    /\ threads = <<>>

\* ChatList(user_upn, token) with Graph answering 200 and the list `raw`
NewChatList ==
    /\ phase = "projecting"
    /\ \E raw \in RawChatLists :
         LET cl == ChatList(user_upn, Str("tokA"),
                            [kind |-> "http", status_code |-> 200,
                             json |-> [value |-> raw]])
         IN  /\ raw_chat_list' = cl.raw_chat_list
             /\ chat_list_out' = cl.chat_list
             /\ graphCalls' = cl.calls
    /\ phase' = "projected"
    /\ UNCHANGED <<token, validity, now, cachedAt, req, resp, pre, ret, got,
                   tokenCalls, user_upn, threads>>

NextProj == NewChatList

SpecProj == InitProj /\ [][NextProj]_vars

(***************************************************************************)
(* Requests served at the same time on the one TeamsToken object.  The     *)
(* object has no lock, so each read and each write of self.token and       *)
(* self.validity is a step of its own, and the steps of different threads  *)
(* interleave.  The token service is healthy: it always answers 200 with   *)
(* result "success", a non-empty token and a validity after the current    *)
(* time.                                                                   *)
(***************************************************************************)
Threads == 1..NumThreads

HealthyTokenResponses(t) ==
    {[kind |-> "http", status_code |-> 200,
      json |-> TokenJson({"result", "token", "validity"}, "success", tk, v)] :
        tk \in TokenStrings \ {""}, v \in {u \in Validities : u > t}}

\* thread r at statement `at`, with its local `data` and, once it has
\* returned, the value returned
Thread(at, data, value) == [pc |-> at, data |-> data, ret |-> value]

InitConc ==
    /\ token = None
    /\ validity = None
    /\ now = 0
    /\ phase = "boot"
    /\ cachedAt = None
    /\ req = [route |-> "none", data |-> EmptyDict]
    /\ resp = NoResponse
    /\ pre = [token |-> None, validity |-> None, now |-> 0]
    /\ ret = NotCalled
    /\ got = NotCalled
    /\ tokenCalls = <<>>
    /\ graphCalls = <<>>
    /\ user_upn = ServiceUPN
    /\ raw_chat_list = <<>>
    /\ chat_list_out = <<>>
    /\ threads = [r \in Threads |-> Thread("idle", EmptyDict, NotCalled)]

unthreaded == <<req, resp, pre, ret, got, tokenCalls, graphCalls, user_upn,
                raw_chat_list, chat_list_out>>

\* main.py module body with the healthy token service: get_token runs alone,
\* before any request is served
main_healthy ==
    /\ phase = "boot"
    /\ \E response \in HealthyTokenResponses(now) :
         LET g == get_token(token, validity, cachedAt, response, now) IN
         /\ token' = g.token
         /\ validity' = g.validity
         /\ cachedAt' = g.at
    /\ phase' = "serving"
    /\ UNCHANGED <<now, threads>>
    /\ UNCHANGED unthreaded

\* request_token line 141: `if self.token is None`
rt_141(r) ==
    /\ phase = "serving"
    /\ threads[r].pc = "idle"
    /\ threads' = [threads EXCEPT ![r].pc =
                       IF token = None THEN "l74" ELSE "l148"]
    /\ UNCHANGED <<token, validity, now, phase, cachedAt>>
    /\ UNCHANGED unthreaded

\* line 148, left operand: `self.validity is not None`
rt_148(r) ==
    /\ phase = "serving"
    /\ threads[r].pc = "l148"
    /\ threads' = [threads EXCEPT ![r].pc =
                       IF validity # None THEN "l148b" ELSE "l159"]
    /\ UNCHANGED <<token, validity, now, phase, cachedAt>>
    /\ UNCHANGED unthreaded

\* line 148, right operand: `self.validity < time()`, self.validity read
\* again; None < float raises TypeError
rt_148b(r) ==
    /\ phase = "serving"
    /\ threads[r].pc = "l148b"
    /\ threads' = [threads EXCEPT ![r] =
                       IF validity = None
                       THEN Thread("done", EmptyDict, Raised)
                       ELSE IF validity[2] < now
                       THEN Thread("l74", EmptyDict, NotCalled)
                       ELSE Thread("l159", EmptyDict, NotCalled)]
    /\ UNCHANGED <<token, validity, now, phase, cachedAt>>
    /\ UNCHANGED unthreaded

\* get_token line 74: `self.token = None`
gt_74(r) ==
    /\ phase = "serving"
    /\ threads[r].pc = "l74"
    /\ token' = None
    /\ cachedAt' = None
    /\ threads' = [threads EXCEPT ![r].pc = "l75"]
    /\ UNCHANGED <<validity, now, phase>>
    /\ UNCHANGED unthreaded

\* get_token line 75: `self.validity = None`
gt_75(r) ==
    /\ phase = "serving"
    /\ threads[r].pc = "l75"
    /\ validity' = None
    /\ threads' = [threads EXCEPT ![r].pc = "l78"]
    /\ UNCHANGED <<token, now, phase, cachedAt>>
    /\ UNCHANGED unthreaded

\* get_token lines 78-111: the call to the token service and the checks of
\* its answer, all on locals; a refused answer returns False to line 145/152
gt_78(r) ==
    /\ phase = "serving"
    /\ threads[r].pc = "l78"
    /\ \E response \in HealthyTokenResponses(now) :
         LET g == get_token(None, None, None, response, now) IN
         threads' = [threads EXCEPT ![r] =
                         IF g.ret = PyTrue
                         THEN Thread("l114", response.json, NotCalled)
                         ELSE Thread("l159", EmptyDict, NotCalled)]
    /\ UNCHANGED <<token, validity, now, phase, cachedAt>>
    /\ UNCHANGED unthreaded

\* get_token line 114: `self.token = data["token"]`
gt_114(r) ==
    /\ phase = "serving"
    /\ threads[r].pc = "l114"
    /\ token' = threads[r].data["token"]
    /\ cachedAt' = Num(now)
    /\ threads' = [threads EXCEPT ![r].pc = "l115"]
    /\ UNCHANGED <<validity, now, phase>>
    /\ UNCHANGED unthreaded

\* get_token line 115: `self.validity = data["validity"]`, then the return
gt_115(r) ==
    /\ phase = "serving"
    /\ threads[r].pc = "l115"
    /\ validity' = Num(threads[r].data["validity"])
    /\ threads' = [threads EXCEPT ![r] = Thread("l159", EmptyDict, NotCalled)]
    /\ UNCHANGED <<token, now, phase, cachedAt>>
    /\ UNCHANGED unthreaded

\* request_token line 159: `if self.token is None: return False`
rt_159(r) ==
    /\ phase = "serving"
    /\ threads[r].pc = "l159"
    /\ threads' = [threads EXCEPT ![r] =
                       IF token = None
                       THEN Thread("done", EmptyDict, PyFalse)
                       ELSE Thread("l164", EmptyDict, NotCalled)]
    /\ UNCHANGED <<token, validity, now, phase, cachedAt>>
    /\ UNCHANGED unthreaded

\* request_token line 164: `return self.token`, self.token read again
rt_164(r) ==
    /\ phase = "serving"
    /\ threads[r].pc = "l164"
    /\ threads' = [threads EXCEPT ![r] = Thread("done", EmptyDict, token)]
    /\ UNCHANGED <<token, validity, now, phase, cachedAt>>
    /\ UNCHANGED unthreaded

\* time passes
tick_conc ==
    /\ phase = "serving"
    /\ now < MaxTime
    /\ now' = now + 1
    /\ UNCHANGED <<token, validity, phase, cachedAt, threads>>
    /\ UNCHANGED unthreaded

NextConc ==
    \/ main_healthy
    \/ tick_conc
    \/ \E r \in Threads :
          \/ rt_141(r)
          \/ rt_148(r)
          \/ rt_148b(r)
          \/ gt_74(r)
          \/ gt_75(r)
          \/ gt_78(r)
          \/ gt_114(r)
          \/ gt_115(r)
          \/ rt_159(r)
          \/ rt_164(r)

SpecConc == InitConc /\ [][NextConc]_vars

(***************************************************************************)
(* Properties of the token cache                                           *)
(***************************************************************************)
\* request_token was called by the last request; what the cache held then
Requested == ret # NotCalled
CachedBefore == pre.token # None /\ pre.validity # None
NothingCachedBefore == pre.token = None

\* the token service answered 200 with result, token and validity, and the
\* result is not "error"
Complete(response) ==
    /\ response.kind = "http"
    /\ response.status_code = 200
    /\ {"result", "token", "validity"} \subseteq DOMAIN response.json
    /\ response.json["result"] # "error"

\* the token service answered, but not 200, or without one of the three
\* keys, or with result "error"
Refused(response) ==
    /\ response.kind = "http"
    /\ ~Complete(response)

CacheEmpty == token = None /\ validity = None

\* C1: when request_token is called with a token cached whose validity is
\* greater than the current time, it returns exactly that token, calls the
\* token service not at all and leaves the cached token and validity as
\* they were.
C1_CachedTokenReused ==
    (Requested /\ CachedBefore /\ pre.validity[2] > pre.now)
        => /\ ret = pre.token
           /\ tokenCalls = <<>>
           /\ got = NotCalled
           /\ token = pre.token
           /\ validity = pre.validity

C1_Witness ==
    /\ Requested /\ CachedBefore /\ pre.validity[2] > pre.now
    /\ ret = pre.token
    /\ ret \in {Str("tokA"), Str("tokB")}

\* C2 as claimed: request_token calls the token service exactly once when
\* nothing is cached and exactly once when the cached validity is less than
\* or equal to the current time.
C2_RefreshOnceWhenValidityNotAfterNow ==
    (Requested /\ (NothingCachedBefore
                   \/ (CachedBefore /\ pre.validity[2] <= pre.now)))
        => Len(tokenCalls) = 1

\* C2 amended: request_token calls the token service exactly once when
\* nothing is cached and exactly once when the cached validity is less than
\* the current time; a cached validity equal to the current time causes no
\* call, the cached token being returned.
C2_RefreshOnceWhenValidityBeforeNow ==
    Requested =>
        /\ (NothingCachedBefore \/ (CachedBefore /\ pre.validity[2] < pre.now))
               => Len(tokenCalls) = 1 /\ got # NotCalled
        /\ (CachedBefore /\ pre.validity[2] = pre.now)
               => tokenCalls = <<>> /\ got = NotCalled /\ ret = pre.token

C2_Witness ==
    /\ Requested /\ CachedBefore /\ pre.validity[2] < pre.now
    /\ Len(tokenCalls) = 1

C2_WitnessEmpty ==
    Requested /\ NothingCachedBefore /\ Len(tokenCalls) = 1

C2_WitnessEqual ==
    /\ Requested /\ CachedBefore /\ pre.validity[2] = pre.now
    /\ tokenCalls = <<>>

\* C3 as claimed: a complete answer of the token service whose validity is
\* less than or equal to the current time is rejected (get_token returns
\* False and the cache is empty), and every cached token has a validity
\* greater than the time at which it was cached.
C3_ValidityNotAfterNowRejected ==
    /\ \A i \in 1..Len(tokenCalls) :
          (Complete(tokenCalls[i].response)
           /\ tokenCalls[i].response.json["validity"] <= tokenCalls[i].at)
              => got = PyFalse /\ CacheEmpty
    /\ token # None => validity[2] > cachedAt[2]

\* C3 amended: a complete answer of the token service whose validity is
\* less than the current time is rejected (get_token returns False and the
\* cache is empty); one whose validity equals the current time is stored;
\* every cached token has a validity greater than or equal to the time at
\* which it was cached.
C3_ValidityBeforeNowRejected ==
    /\ \A i \in 1..Len(tokenCalls) :
          LET c == tokenCalls[i] IN
          /\ (Complete(c.response) /\ c.response.json["validity"] < c.at)
                 => got = PyFalse /\ CacheEmpty /\ cachedAt = None
          /\ (Complete(c.response) /\ c.response.json["validity"] = c.at)
                 => /\ got = PyTrue
                    /\ token = c.response.json["token"]
                    /\ validity = Num(c.response.json["validity"])
    /\ token # None => validity # None /\ cachedAt # None
                       /\ validity[2] >= cachedAt[2]

C3_Witness ==
    /\ Len(tokenCalls) = 1
    /\ Complete(tokenCalls[1].response)
    /\ tokenCalls[1].response.json["validity"] < tokenCalls[1].at
    /\ got = PyFalse /\ CacheEmpty

C3_WitnessEqual ==
    /\ Len(tokenCalls) = 1
    /\ Complete(tokenCalls[1].response)
    /\ tokenCalls[1].response.json["validity"] = tokenCalls[1].at
    /\ token # None /\ validity[2] = cachedAt[2]

\* C4: when the token service answers with a status other than 200, or with
\* JSON lacking result, token or validity, or with result "error", get_token
\* returns False, the cache is empty afterwards whatever it held before, and
\* the request_token call that made the call returns False.
C4_RefusedLeavesCacheEmpty ==
    \A i \in 1..Len(tokenCalls) :
        Refused(tokenCalls[i].response)
            => /\ got = PyFalse
               /\ CacheEmpty
               /\ Requested => ret = PyFalse

C4_Witness ==
    /\ Requested /\ CachedBefore
    /\ Len(tokenCalls) = 1 /\ Refused(tokenCalls[1].response)
    /\ DOMAIN tokenCalls[1].response.json = {"result", "token"}
    /\ ret = PyFalse /\ CacheEmpty

(***************************************************************************)
(* Properties of the routes                                                *)
(***************************************************************************)
MessageRequest == req.route = "/api/message"
ChatListRequest == req.route = "/api/chat_list"
BodyComplete == {"chat-id", "message"} \subseteq DOMAIN req.data
\* request_token returned a non-empty string
TokenObtained == ret \in {Str(t) : t \in TokenStrings \ {""}}
\* request_token returned False or an empty token
NoTokenObtained == ret \in {PyFalse, Str("")}

MissingFieldsResponse ==
    [status |-> 400,
     body |-> Obj([result |-> "error", error |-> "Missing chat-id or message"])]
TokenUnavailableResponse ==
    [status |-> 400,
     body |-> Obj([result |-> "error",
                   error |-> "No access token available, check the service account is logged in."])]
SuccessResponse == [status |-> 200, body |-> Obj([result |-> "success"])]

\* C5: POST /api/message with chat-id and message in the body, request_token
\* yielding no token: the response is 400 with the token-unavailable error
\* and no call to Graph is made.
C5_NoTokenNoSend ==
    (MessageRequest /\ BodyComplete /\ NoTokenObtained)
        => resp = TokenUnavailableResponse /\ graphCalls = <<>>

C5_Witness ==
    /\ MessageRequest /\ BodyComplete /\ ret = PyFalse
    /\ resp = TokenUnavailableResponse /\ graphCalls = <<>>

\* C6 as claimed: when the call to the token service fails in transport
\* while POST /api/message is handled, get_token returns False (it does not
\* raise), request_token returns False, the response is 400 with the
\* token-unavailable error, and the cache is empty afterwards.
C6_TransportFailureAnswered400 ==
    (MessageRequest /\ Len(tokenCalls) = 1
     /\ tokenCalls[1].response.kind = "transport")
        => /\ got = PyFalse
           /\ ret = PyFalse
           /\ resp = TokenUnavailableResponse
           /\ CacheEmpty

\* C7: POST /api/message whose body is empty or lacks chat-id or message:
\* the response is 400 {"result":"error","error":"Missing chat-id or
\* message"}, neither the token service nor Graph is called, request_token
\* is not called and the token cache is as it was.
C7_MissingFieldsBeforeAnyCall ==
    (MessageRequest /\ ~BodyComplete)
        => /\ resp = MissingFieldsResponse
           /\ tokenCalls = <<>>
           /\ graphCalls = <<>>
           /\ ret = NotCalled
           /\ token = pre.token /\ validity = pre.validity

C7_Witness ==
    /\ MessageRequest /\ DOMAIN req.data = {"chat-id"}
    /\ pre.token = None
    /\ resp = MissingFieldsResponse /\ tokenCalls = <<>> /\ graphCalls = <<>>

\* C8: POST /api/message with chat-id and message in the body and a token
\* obtained: exactly one POST is made to Graph; the response is 200
\* {"result":"success"} if Graph answered 201, and 400 with result "error"
\* for every other Graph status and for a transport exception.
C8_OneSendMappedToResponse ==
    (MessageRequest /\ BodyComplete /\ TokenObtained)
        => /\ Len(graphCalls) = 1
           /\ graphCalls[1].method = "POST"
           /\ graphCalls[1].bearer = ret
           /\ IF /\ graphCalls[1].response.kind = "http"
                 /\ graphCalls[1].response.status_code = 201
              THEN resp = SuccessResponse
              ELSE /\ resp.status = 400
                   /\ resp.body[1] = "object"
                   /\ resp.body[2].result = "error"

C8_Witness ==
    /\ MessageRequest /\ BodyComplete /\ TokenObtained
    /\ Len(graphCalls) = 1
    /\ graphCalls[1].response.kind = "http"
    /\ graphCalls[1].response.status_code = 201
    /\ resp = SuccessResponse

C8_WitnessOtherStatus ==
    /\ MessageRequest /\ BodyComplete /\ TokenObtained
    /\ Len(graphCalls) = 1
    /\ graphCalls[1].response.kind = "http"
    /\ graphCalls[1].response.status_code = 200
    /\ resp.status = 400

\* C9 as claimed: GET /api/chat_list with a token obtained and Graph
\* answering 200: the response has status 200 and its JSON body is the
\* object {"result":"success","chats":[...]} whose chats is the projected
\* chat list.
C9_ChatListBodyIsObject ==
    (ChatListRequest /\ TokenObtained /\ Len(graphCalls) = 1
     /\ graphCalls[1].response.kind = "http"
     /\ graphCalls[1].response.status_code = 200)
        => /\ resp.status = 200
           /\ resp.body = Obj([result |-> "success", chats |-> chat_list_out])

(***************************************************************************)
(* Properties of the chat list projection                                  *)
(***************************************************************************)
\* the raw members of a chat, the service account left out
Others(chat, upn) ==
    IF "members" \in DOMAIN chat
    THEN SelectSeq(chat["members"], LAMBDA m : m.email # Str(upn))
    ELSE <<>>

Copied(chat, key, value) ==
    IF key \in DOMAIN chat THEN value = chat[key] ELSE value = None

\* C10: the projected list has one summary per raw chat, in order, with id,
\* topic, chatType and webUrl copied (None when missing); the members of a
\* summary are the raw members whose email differs from the UPN, in their
\* order and with repetitions kept, each as display name and email; no
\* summary has a member whose email is the UPN.
C10_ProjectionFiltersServiceAccount ==
    phase = "projected" =>
        /\ Len(chat_list_out) = Len(raw_chat_list)
        /\ \A i \in 1..Len(raw_chat_list) :
              LET chat == raw_chat_list[i]
                  summary == chat_list_out[i]
                  others == Others(chat, user_upn)
              IN  /\ Copied(chat, "id", summary.id)
                  /\ Copied(chat, "topic", summary.topic)
                  /\ Copied(chat, "chatType", summary.chat_type)
                  /\ Copied(chat, "webUrl", summary.web_url)
                  /\ Len(summary.members) = Len(others)
                  /\ \A j \in 1..Len(others) :
                        /\ summary.members[j].display_name = others[j].displayName
                        /\ summary.members[j].email = others[j].email
                        /\ summary.members[j].email # Str(user_upn)

\* a chat with the service account twice, the same address in capitals and
\* somebody else twice: the capitals and both others survive
C10_Witness ==
    /\ phase = "projected"
    /\ user_upn = "svc@x.com"
    /\ Len(raw_chat_list) = 2
    /\ "members" \in DOMAIN raw_chat_list[1]
    /\ Len(raw_chat_list[1]["members"]) = 2
    /\ raw_chat_list[1]["members"][1].email = Str("svc@x.com")
    /\ raw_chat_list[1]["members"][2].email = Str("SVC@x.com")
    /\ Len(chat_list_out[1].members) = 1
    /\ "members" \in DOMAIN raw_chat_list[2]
    /\ Len(raw_chat_list[2]["members"]) = 2
    /\ raw_chat_list[2]["members"][1] = raw_chat_list[2]["members"][2]
    /\ Len(chat_list_out[2].members) = 2

(***************************************************************************)
(* Properties of requests served at the same time                          *)
(***************************************************************************)
ValidTokens == {Str(t) : t \in TokenStrings \ {""}}
Returned(r) == threads[r].pc = "done"

\* C11 as claimed: with a healthy token service, whatever the interleaving,
\* every request_token call returns a valid token, never False and never an
\* absent value, and no request finds the cache cleared by the refresh
\* another request has in progress.
C11_EveryConcurrentRequestGetsToken ==
    \A r \in Threads : Returned(r) => threads[r].ret \in ValidTokens

\* the parts of C11, each on its own
C11_NeverReturnsFalse ==
    \A r \in Threads : Returned(r) => threads[r].ret # PyFalse
C11_NeverReturnsNone ==
    \A r \in Threads : Returned(r) => threads[r].ret # None
C11_NeverRaises ==
    \A r \in Threads : Returned(r) => threads[r].ret # Raised
\* token and validity are replaced together
C11_PairReplacedAtomically ==
    phase = "serving" => (token = None) = (validity = None)

(***************************************************************************)
(* Properties of the chat list route without a token                       *)
(***************************************************************************)
\* Graph answered the one call made, and not with 200
GraphDidNotAnswer200 ==
    /\ Len(graphCalls) = 1
    /\ \/ graphCalls[1].response.kind = "transport"
       \/ graphCalls[1].response.status_code # 200

\* what chat_list() answers when the chat list is empty
EmptyChatListResponse ==
    [status |-> 200,
     body |-> Arr(<<Obj([result |-> "success", chats |-> <<>>]), Num(200)>>)]

\* C12: GET /api/chat_list when request_token returns False: the GET to
\* Graph is made all the same, with False as the bearer token; and when
\* Graph answers 403, another status that is not 200, or the call raises,
\* the response is never 400: it is the response of the success path, with
\* result "success" and an empty chats list.
C12_ChatListWithoutTokenStillCallsGraph ==
    (ChatListRequest /\ ret = PyFalse)
        => /\ Len(graphCalls) = 1
           /\ graphCalls[1].method = "GET"
           /\ graphCalls[1].bearer = PyFalse
           /\ GraphDidNotAnswer200
                 => /\ resp.status # 400
                    /\ resp = EmptyChatListResponse
                    /\ chat_list_out = <<>>

C12_Witness ==
    /\ ChatListRequest /\ ret = PyFalse
    /\ Len(graphCalls) = 1
    /\ graphCalls[1].bearer = PyFalse
    /\ graphCalls[1].response.kind = "http"
    /\ graphCalls[1].response.status_code = 403
    /\ resp = EmptyChatListResponse

C12_WitnessTransport ==
    /\ ChatListRequest /\ ret = PyFalse
    /\ Len(graphCalls) = 1
    /\ graphCalls[1].response.kind = "transport"
    /\ resp = EmptyChatListResponse

TypeOK ==
    /\ token \in {None} \cup {Str(s) : s \in TokenStrings}
    /\ validity \in {None} \cup {Num(v) : v \in Validities}
    /\ now \in 0..MaxTime
    /\ phase \in {"boot", "serving", "crashed", "projecting", "projected"}
    /\ (token = None) = (validity = None)
    /\ (token = None) = (cachedAt = None)
====
